---- MODULE Spec2Model ----
(***************************************************************************)
(* Weather Insights and Forecast Advisor.                                  *)
(*                                                                         *)
(* Three parts of the repository are modelled, each with its own           *)
(* specifications over the shared variables:                               *)
(*   SpecApi    - the browser API client (frontend/src/services/api.js),   *)
(*                browser storage and the agents' HTTP endpoints;          *)
(*   SpecDash   - the same client with the Dashboard component mounted     *)
(*                and its session-expiry listener;                         *)
(*   SpecDeploy - deploy_agents_lab.sh and its background deploy_agent     *)
(*                processes;                                               *)
(*   SpecTour   - the guided tour of TourContext;                          *)
(*   SpecRefresh, SpecPages - the Dashboard's Refresh button and region    *)
(*                selection, the Forecast page and the Dashboard handlers  *)
(*                that await an agent operation;                           *)
(*   SpecParse  - the client with the content of the agents' responses;    *)
(*   SpecClear  - clearBrowserState over every selection of stored keys;   *)
(*   SpecTourReset, SpecTourPress - the tour next to the session resets,   *)
(*                and under a user who keeps pressing Next;                *)
(*   SpecTourNav - the tour with TourGuide's navigation effect;            *)
(*   SpecTourDemo - the Dashboard's tour effect and its timers in demo     *)
(*                mode;                                                    *)
(*   SpecMounts - the Dashboard mounted and unmounted within one tab.      *)
(***************************************************************************)
EXTENDS Integers, Sequences, FiniteSets, TLC

VARIABLES
    \* ---- browser / API client ----
    now,             \* Date.now(), relative to the page's first load
    localStorage,    \* key -> value (values are sequences; '' and null are <<>>)
    sessionStorage,  \* key -> value
    events,          \* number of 'sessionExpired' events dispatched so far
    calls,           \* call id -> the async API operation in flight
    nextCall,        \* next call id
    sent,            \* the HTTP requests the client sent in its last step
    issued,          \* [agent, sid]: session ids the agents' servers returned
    dash,            \* the Dashboard component: mounted flag, React state, the
                     \* context's isDemoMode, its pending timers, the
                     \* dependencies its tour effect last ran with, and
                     \* initialLoads: how often the mount effect called
                     \* loadAlerts('National') in this tab (history)
    forecast,        \* the Forecast page: mounted flag and React state
    last             \* what the last client step did (observer, for the claims)

apiVars == <<now, localStorage, sessionStorage, events, calls, nextCall,
             sent, issued, dash, forecast, last>>

\* ---- deploy_agents_lab.sh ----
VARIABLES
    mainPc,        \* where the script is: "check", "auth", "prepare", "launch", "wait", "exited"
    loopIdx,       \* the index of the launch loop, then of the wait loop
    exitCode,      \* the script's exit status once mainPc = "exited"
    successCount,  \* success_count
    failedCount,   \* failed_count
    waited,        \* the agents whose PID the script has waited on
    procPc,        \* agent -> where its background deploy_agent is
    procUrl,       \* agent -> deploy_agent's local service_url
    locks,         \* the lock directories that exist in /tmp
    envFile        \* the lines of frontend/.env.production


deployVars == <<mainPc, loopIdx, exitCode, successCount, failedCount, waited,
                procPc, procUrl, locks, envFile>>

\* ---- the guided tour ----
VARIABLES
    isTourActive,      \* TourProvider state
    currentStep,       \* TourProvider state
    hasCompletedTour,  \* TourProvider state
    pathname           \* the router's location.pathname


tourVars == <<isTourActive, currentStep, hasCompletedTour, pathname>>

apiOnly == <<now, sessionStorage, events, calls, nextCall, sent, issued, dash,
             forecast, last>>

vars == <<apiVars, deployVars, tourVars>>

\* ------------------------------------------------------------------ bounds

MaxCalls == 2      \* API calls started in a run of SpecApi
MaxDashCalls == 3  \* API calls started in a run of SpecDash
MaxSlack == 2      \* milliseconds explored after 0 and after SESSION_TIMEOUT
MaxRefreshCalls == 4    \* API calls started in a run of SpecRefresh
MaxTourResetCalls == 4  \* API calls started in a run of SpecTourReset
MaxParseCalls == 1      \* API calls started in a run of SpecParse
MaxPageCalls == 3       \* API calls started in a run of SpecPages
MaxClearCalls == 1      \* API calls started in a run of SpecClear
MaxDemoCalls == 2       \* API calls started in a run of SpecTourDemo
MaxMountCalls == 4      \* API calls started in a run of SpecMounts
MaxEvents == 2          \* events of a /run response
MaxParts == 2           \* parts of an event's content

\* ------------------------------------------------------- program constants

SESSION_STORAGE_KEY == "weather_agent_session_id"
SESSION_TIMESTAMP_KEY == "weather_agent_session_timestamp"
SESSION_TIMEOUT == 30 * 60 * 1000

\* The prefixes clearBrowserState tests with key.startsWith(...)
\* Mutant: the loop forgets the 'forecast' prefix
ClearedPrefixes_NoForecast == {"dashboard", "weather_agent", "chat", "risk", "emergency"}

ClearedPrefixes == {"dashboard", "weather_agent", "chat", "forecast", "risk", "emergency"}

\* this.clients: the axios client (agent service) each operation talks to
ClientOf(op) ==
    CASE op \in {"query", "queryWithImage"} -> "chat"
      [] op = "getForecast" -> "forecast"
      [] op = "getAlerts" -> "alerts"
      [] op \in {"getEvacuationRoute", "findResources", "geocode"} -> "emergency"
      [] op = "analyzeRisk" -> "risk"
      [] op = "analyzeHurricaneImage" -> "hurricane"
      [] op = "getMapForZones" -> "map"

\* app_name of the /run body and of the sessions URL
AppNameOf(op) ==
    CASE op \in {"query", "queryWithImage"} -> "chat"
      [] op = "getForecast" -> "forecast_agent"
      [] op = "getAlerts" -> "alerts_snapshot_agent"
      [] op \in {"getEvacuationRoute", "findResources", "geocode"} -> "emergency_resources_agent"
      [] op = "analyzeRisk" -> "risk_analysis_agent"
      [] op = "analyzeHurricaneImage" -> "hurricane_simulation_agent"
      [] op = "getMapForZones" -> "weather_map_agent"

ChatOps == {"query", "queryWithImage"}
AgentOps == {"getAlerts", "getForecast", "analyzeRisk", "findResources",
             "getEvacuationRoute", "analyzeHurricaneImage", "getMapForZones"}
ImageOps == {"queryWithImage", "analyzeHurricaneImage"}
Ops == ChatOps \cup AgentOps \cup {"geocode"}

\* HTTP outcomes of a request: a status, or 0 for no response (timeout, network)
Statuses == {200, 401, 404, 500, 0}

\* ------------------------------------------------------------ pure helpers

\* String.prototype.startsWith
StartsWith(key, prefix) ==
    Len(key) >= Len(prefix) /\ SubSeq(key, 1, Len(prefix)) = prefix

\* Storage.getItem: null (<<>>) for a missing key
getItem(store, key) == IF key \in DOMAIN store THEN store[key] ELSE <<>>

\* Storage.setItem
setItem(store, key, value) ==
    [k \in DOMAIN store \cup {key} |-> IF k = key THEN value ELSE store[k]]

\* Storage.removeItem
removeItem(store, key) == [k \in DOMAIN store \ {key} |-> store[k]]

\* JavaScript truthiness of a string-or-null: null and '' are falsy
Falsy(v) == v = <<>>

\* Number.prototype.toString: the decimal digits of n
RECURSIVE NumToString(_)
NumToString(n) == IF n < 10 THEN <<n>> ELSE Append(NumToString(n \div 10), n % 10)

\* parseInt(s, 10) on a string of decimal digits
RECURSIVE ParseIntFrom(_, _)
ParseIntFrom(s, acc) ==
    IF s = <<>> THEN acc ELSE ParseIntFrom(Tail(s), acc * 10 + Head(s))

parseInt(s) == ParseIntFrom(s, 0)


\* JSON.stringify / JSON.parse of a list (0 stands for the brackets)
JSONstringify(list) == <<0>> \o list \o <<0>>
JSONparse(text) == SubSeq(text, 2, Len(text) - 1)

\* Mutant: a session of exactly SESSION_TIMEOUT is already expired
isSessionValid_Strict(store, t) ==
    /\ SESSION_STORAGE_KEY \in DOMAIN store
    /\ SESSION_TIMESTAMP_KEY \in DOMAIN store
    /\ t - parseInt(store[SESSION_TIMESTAMP_KEY]) < SESSION_TIMEOUT

\* isSessionValid (api.js 77-94)
isSessionValid(store, t) ==
    LET sessionId == getItem(store, SESSION_STORAGE_KEY)
        timestamp == getItem(store, SESSION_TIMESTAMP_KEY)
    IN  IF Falsy(sessionId) \/ Falsy(timestamp) THEN FALSE
        ELSE IF t - parseInt(timestamp) > SESSION_TIMEOUT THEN FALSE
        ELSE TRUE

\* the test of clearBrowserState's loop: does the key start with a cleared prefix
HasClearedPrefix(key) == \E p \in ClearedPrefixes : StartsWith(key, p)

\* Mutant: every key is removed, as localStorage.clear() would
RemoveClearedKeys_All(store) == [k \in {} |-> <<>>]

\* localStorage after clearBrowserState's keysToRemove.forEach(removeItem)
RemoveClearedKeys(store) ==
    [k \in {x \in DOMAIN store : ~HasClearedPrefix(x)} |-> store[k]]

\* Mutant: only 401 is taken for an invalid session
IsSessionInvalid_Only401(status) == status = 401

\* the catch blocks of query / queryWithImage: is the error a session-invalid one
IsSessionInvalid(status) == status = 404 \/ status = 401

\* Mutant: every operation's catch block resets on a session-invalid status
CatchResets_AnyOp(op, status) == status = 404 \/ status = 401

\* the catch blocks of the agent operations and geocode never reset
CatchResets(op, status) == op \in ChatOps /\ IsSessionInvalid(status)

\* the fields of the body an operation posts to /run
RunFields(op) ==
    IF op = "geocode"
    THEN {"app_name", "user_id", "new_message", "streaming"}
    ELSE {"app_name", "user_id", "session_id", "new_message", "streaming"}

\* the POST that creates a session: /apps/<app>/users/user_001/sessions {state: {}}
SessionRequest(op, depth) ==
    [agent |-> ClientOf(op), path |-> "sessions", app |-> AppNameOf(op),
     fields |-> {"state"}, session_id |-> <<>>, depth |-> depth]

\* the POST to /run
RunRequest(op, sid, depth) ==
    [agent |-> ClientOf(op), path |-> "run", app |-> AppNameOf(op),
     fields |-> RunFields(op),
     session_id |-> IF "session_id" \in RunFields(op) THEN sid ELSE <<>>,
     depth |-> depth]

\* ------------------------------------------------ the agents' /run responses

\* all sequences over S of length at most n
SeqsUpTo(S, n) == UNION {[1..k -> S] : k \in 0..n}

\* the text of a part: empty, the JSON of an object, or prose
Texts == {"", "{a}", "x"}

\* a part with a text, or one without (inlineData)
Parts == {[text |-> t] : t \in Texts} \cup {[inlineData |-> "img"]}

\* an event with content.parts, or one without content
Events ==
    {[content |-> [parts |-> ps]] : ps \in SeqsUpTo(Parts, MaxParts)}
        \cup {[author |-> "agent"]}

\* response.data: an array of events, or a single object
Responses ==
    {[array |-> evs] : evs \in SeqsUpTo(Events, MaxEvents)}
        \cup {[object |-> ev] : ev \in Events}

\* the responses of one event with one text part, and the empty array
FinalResponses ==
    {[array |-> <<[content |-> [parts |-> <<[text |-> t]>>]]>>] : t \in Texts}
        \cup {[array |-> <<>>]}

\* JavaScript's undefined, where a string is expected
Undefined == "<undefined>"

\* JavaScript truthiness of a string-or-undefined
Truthy(text) == text # Undefined /\ text # ""

\* JSON.parse of a text: ok is FALSE where it throws a SyntaxError; the object
\* {insights: 'a', ...} is kept as its body
JSONparseText(text) ==
    IF Len(text) >= 2 /\ SubSeq(text, 1, 1) = "{" /\ SubSeq(text, Len(text), Len(text)) = "}"
    THEN [ok |-> TRUE, value |-> SubSeq(text, 2, Len(text) - 1)]
    ELSE [ok |-> FALSE, value |-> Undefined]

\* finalStep?.content?.parts?.[0]?.text of the last event of an array
\* (api.js 367-368, 426-427)
FinalText(evs) ==
    LET finalStep == evs[Len(evs)]
    IN  IF "content" \in DOMAIN finalStep /\ Len(finalStep.content.parts) > 0
           /\ "text" \in DOMAIN finalStep.content.parts[1]
        THEN finalStep.content.parts[1].text
        ELSE Undefined

\* the texts of the parts of one event, concatenated (api.js 193-200, 205-209)
RECURSIVE PartsText(_)
PartsText(ps) ==
    IF ps = <<>> THEN ""
    ELSE (IF "text" \in DOMAIN ps[1] /\ Truthy(ps[1].text) THEN ps[1].text ELSE "")
           \o PartsText(Tail(ps))

EventText(ev) == IF "content" \in DOMAIN ev THEN PartsText(ev.content.parts) ELSE ""

RECURSIVE EventsText(_)
EventsText(evs) ==
    IF evs = <<>> THEN "" ELSE EventText(evs[1]) \o EventsText(Tail(evs))

\* Mutant: only the final event's text is taken, as the agent operations do
ResponseText_FinalOnly(data) ==
    IF "array" \in DOMAIN data
    THEN (IF data.array = <<>> THEN "" ELSE EventText(data.array[Len(data.array)]))
    ELSE EventText(data.object)

\* responseText of query / queryWithImage (api.js 186-210, 284-308)
ResponseText(data) ==
    IF "array" \in DOMAIN data THEN EventsText(data.array) ELSE EventText(data.object)

\* Mutant: a parse failure yields null in every operation
OnParseError_Null(op, text, sid) == [kind |-> "null"]

\* what an operation returns when JSON.parse of the final text throws
\* (api.js 373-375, 432-434, 480-482, 529-531, 585-588, 620-626, 742-746, 797-800)
OnParseError(op, text, sid) ==
    CASE op = "getForecast" -> [kind |-> "forecast", content |-> text, session_id |-> sid]
      [] op = "getEvacuationRoute" ->
            [kind |-> "route", content |-> "", evacuation_routes |-> <<>>, session_id |-> sid]
      [] op = "analyzeHurricaneImage" -> [kind |-> "raw", raw_response |-> text]
      [] OTHER -> [kind |-> "null"]

\* what an operation returns for the parsed object
OnParsed(op, text, value, sid) ==
    CASE op = "getForecast" -> [kind |-> "forecast", content |-> text, session_id |-> sid]
      [] op = "getEvacuationRoute" ->
            [kind |-> "route", content |-> value, evacuation_routes |-> <<value>>,
             session_id |-> sid]
      [] OTHER -> [kind |-> "object", value |-> value]

\* what an operation returns when there is no final text to parse
OnNoText(op, text, sid) ==
    CASE op = "getForecast" -> [kind |-> "forecast", content |-> text, session_id |-> sid]
      [] op = "getEvacuationRoute" ->
            [kind |-> "route", content |-> "", evacuation_routes |-> <<>>, session_id |-> sid]
      [] OTHER -> [kind |-> "null"]

\* The value an operation returns for response.data (api.js 181-219, 358-385,
\* 418-439, 471-492, 521-547, 577-597, 615-623, 735-754, 788-807)
Result(op, sid, data) ==
    IF op \in ChatOps
    THEN [kind |-> "query", content |-> ResponseText(data), session_id |-> sid]
    ELSE LET isArray == "array" \in DOMAIN data /\ Len(data.array) > 0
             text == IF isArray THEN FinalText(data.array) ELSE ""
             parsed == JSONparseText(text)
         IN  IF ~Truthy(text) THEN OnNoText(op, text, sid)
             ELSE IF parsed.ok THEN OnParsed(op, text, parsed.value, sid)
             ELSE OnParseError(op, text, sid)

\* does the operation reach this.updateSessionTimestamp(): geocode has no such
\* call, findResources returns before it on a parse error (api.js 587)
UpdatesTimestamp(op, data) ==
    /\ op # "geocode"
    /\ ~(/\ op = "findResources"
         /\ "array" \in DOMAIN data /\ Len(data.array) > 0
         /\ Truthy(FinalText(data.array))
         /\ ~JSONparseText(FinalText(data.array)).ok)

\* ----------------------------------------------- the client's state, as a value

World ==
    [now |-> now, ls |-> localStorage, ss |-> sessionStorage, events |-> events,
     calls |-> calls, nextCall |-> nextCall, log |-> {}, dash |-> dash,
     forecast |-> forecast]

post(w, req) == [w EXCEPT !.log = @ \cup {req}]

addCall(w, rec) ==
    [w EXCEPT !.calls = [i \in DOMAIN w.calls \cup {w.nextCall} |->
                            IF i = w.nextCall THEN rec ELSE w.calls[i]],
              !.nextCall = @ + 1]

setCall(w, id, rec) == [w EXCEPT !.calls[id] = rec]

dropCall(w, id) == [w EXCEPT !.calls = [i \in DOMAIN w.calls \ {id} |-> w.calls[i]]]

\* A React state update of the mounted Dashboard followed by the persistence
\* effect of that state (part_002 306-320). An effect runs when its dependency
\* changed: a string by value, an array by reference (every new array).
setDash(w, field, value) ==
    IF ~w.dash.mounted THEN w
    ELSE LET isArray == field \in {"alerts", "severeEvents"}
             key == CASE field = "agentResponse" -> "dashboardResponse"
                      [] field = "location" -> "dashboardLocation"
                      [] field = "severeEvents" -> "dashboardSevereEvents"
                      [] field = "alerts" -> "dashboardAlerts"
             runs == isArray \/ w.dash[field] # value
             stored == IF isArray THEN JSONstringify(value) ELSE value
         IN  [w EXCEPT !.dash[field] = value,
                       !.ls = IF runs /\ value # <<>>
                              THEN setItem(@, key, stored) ELSE @]

\* setSelectedState / setSelectedRegion of the mounted Dashboard followed by
\* the effect of that state, which stores the value whatever it is
\* (part_002 322-328)
setSelected(w, field, value) ==
    IF ~w.dash.mounted THEN w
    ELSE LET key == IF field = "selectedState" THEN "dashboardSelectedState"
                    ELSE "dashboardSelectedRegion"
         IN  [w EXCEPT !.dash[field] = value,
                       !.ls = IF w.dash[field] # value THEN setItem(@, key, value) ELSE @]

\* A React state update of the mounted Forecast page followed by the
\* persistence effect of that state (part_004 38-52): the key is stored for a
\* truthy value and removed otherwise. The effect runs when the value changed;
\* a new object always differs from the old one.
setForecast(w, field, value) ==
    IF ~w.forecast.mounted THEN w
    ELSE LET key == IF field = "location" THEN "forecastLocation" ELSE "forecastData"
             stored == IF field = "location" THEN value ELSE JSONstringify(value)
             runs == IF field = "location" THEN w.forecast[field] # value
                     ELSE value # <<>> \/ w.forecast[field] # <<>>
         IN  [w EXCEPT !.forecast[field] = value,
                       !.ls = IF ~runs THEN @
                              ELSE IF value # <<>> THEN setItem(@, key, stored)
                              ELSE removeItem(@, key)]

\* The Forecast page's 'sessionExpired' listener (part_004 56-62)
forecastSessionExpired(w) ==
    LET w1 == setForecast(w, "location", <<>>)
        w2 == setForecast(w1, "forecastData", <<>>)
    IN  [w2 EXCEPT !.ls = removeItem(removeItem(@, "forecastLocation"), "forecastData")]

\* ------------------------------------------------------ the API operations

RECURSIVE clearBrowserState(_, _)

\* The synchronous part of query / queryWithImage (api.js 162-179, 237-277),
\* getOrCreateSession's synchronous part included (api.js 129-146).
queryStart(w, op, caller, depth) ==
    IF isSessionValid(w.ls, w.now)
    THEN LET sid == getItem(w.ls, SESSION_STORAGE_KEY)
             rec == [op |-> op, sid |-> sid, depth |-> depth, caller |-> caller,
                     live |-> TRUE, posts |-> 0, pc |-> "run"]
         IN  IF op \in ImageOps
             THEN addCall(w, [rec EXCEPT !.pc = "image"])
             ELSE addCall(post(w, RunRequest(op, sid, depth)), rec)
    ELSE LET w1 == IF ~Falsy(getItem(w.ls, SESSION_STORAGE_KEY))
                   THEN clearBrowserState(w, depth) ELSE w
         IN  addCall(post(w1, SessionRequest(op, depth)),
                     [op |-> op, sid |-> <<>>, depth |-> depth, caller |-> caller,
                      live |-> TRUE, posts |-> 1, pc |-> "session"])

\* The synchronous part of an agent operation: the session-creation POST
\* (api.js 340, 399, 453, 504, 561, 688, 766); geocode posts to /run at once
\* (api.js 608).
agentStart(w, op, caller, depth) ==
    IF op = "geocode"
    THEN addCall(post(w, RunRequest(op, <<>>, depth)),
                 [op |-> op, sid |-> <<>>, depth |-> depth, caller |-> caller,
                  live |-> TRUE, posts |-> 0, pc |-> "run"])
    ELSE addCall(post(w, SessionRequest(op, depth)),
                 [op |-> op, sid |-> <<>>, depth |-> depth, caller |-> caller,
                  live |-> TRUE, posts |-> 1, pc |-> "session"])

apiStart(w, op, caller, depth) ==
    IF op \in ChatOps THEN queryStart(w, op, caller, depth)
    ELSE agentStart(w, op, caller, depth)

\* loadSevereWeatherEvents up to its await (part_002 548-553);
\* getSevereWeatherEvents starts with its first query (api.js 638-641).
loadSevereWeatherEvents(w, loadingEvents, depth) ==
    IF loadingEvents THEN w
    ELSE queryStart([w EXCEPT !.dash.loadingEvents = TRUE], "query", "severe1", depth)

\* loadNationalSevereAlerts up to its await (part_002 680-685)
loadNationalSevereAlerts(w, loading, depth) ==
    IF loading THEN w
    ELSE agentStart([w EXCEPT !.dash.loading = TRUE], "getAlerts", "national", depth)

\* loadAlerts up to its await (part_002 487-493)
loadAlerts(w, loading, depth) ==
    IF loading THEN w
    ELSE LET w1 == [w EXCEPT !.dash.loading = TRUE]
             w2 == setDash(w1, "alerts", <<>>)
             w3 == setDash(w2, "agentResponse", <<>>)
         IN  agentStart(w3, "getAlerts", "loadAlerts", depth)

\* The Dashboard's listener (part_002 438-451). It is the closure of the mount
\* effect, so the loading flags its loaders test are those of the first render.
handleSessionExpired(w, depth) ==
    LET w1 == setDash(w, "agentResponse", <<>>)
        w2 == setDash(w1, "location", <<>>)
        w3 == setDash(w2, "severeEvents", <<>>)
        w4 == setDash(w3, "alerts", <<>>)
        w5 == [w4 EXCEPT !.ls = removeItem(removeItem(@, "dashboardSevereEvents"),
                                           "dashboardAlerts")]
        w6 == loadSevereWeatherEvents(w5, FALSE, depth)
    IN  loadNationalSevereAlerts(w6, FALSE, depth)

\* clearBrowserState (api.js 96-119); dispatchEvent runs the listeners
\* synchronously.
clearBrowserState(w, depth) ==
    LET w1 == [w EXCEPT !.ls = RemoveClearedKeys(@), !.ss = <<>>,
                        !.events = @ + 1]
        w2 == IF w1.forecast.mounted THEN forecastSessionExpired(w1) ELSE w1
    IN  IF w2.dash.mounted THEN handleSessionExpired(w2, depth) ELSE w2

\* updateSessionTimestamp (api.js 157-160)
updateSessionTimestamp(w) ==
    [w EXCEPT !.ls = setItem(@, SESSION_TIMESTAMP_KEY, NumToString(w.now))]


\* The id of the call the last apiStart registered
newest(w) == w.nextCall - 1

\* setState of the component that started call c: a no-op once it unmounted
setDashOf(w, c, field, value) == IF c.live THEN setDash(w, field, value) ELSE w

setFlagOf(w, c, flag, value) ==
    IF c.live /\ w.dash.mounted THEN [w EXCEPT !.dash[flag] = value] ELSE w

\* the handlers of the pages that await an agent operation
PageCallers == {"handleSearch", "handleAnalyzeRisk", "handleShowOnMap"}

\* {error: '...'}: the object with the fixed message a page shows on a failure
ErrorData == <<9>>

\* setState of the Forecast page by the handler that started call c
setForecastOf(w, c, field, value) ==
    IF c.live /\ w.forecast.mounted THEN setForecast(w, field, value) ELSE w

setForecastFlagOf(w, c, value) ==
    IF c.live /\ w.forecast.mounted THEN [w EXCEPT !.forecast.loading = value] ELSE w

\* Mutant: the handlers have no finally block, the busy flags stay set
pageFail_NoFinally(w, c) ==
    CASE c.caller = "handleSearch" -> setForecastOf(w, c, "forecastData", ErrorData)
      [] c.caller = "handleAnalyzeRisk" -> setFlagOf(w, c, "riskAnalysis", ErrorData)
      [] c.caller = "handleShowOnMap" -> w

\* the catch and finally blocks of the pages' handlers
\* (part_004 128-134, part_002 479-484, 810-818)
pageFail(w, c) ==
    CASE c.caller = "handleSearch" ->
            setForecastFlagOf(setForecastOf(w, c, "forecastData", ErrorData), c, FALSE)
      [] c.caller = "handleAnalyzeRisk" ->
            setFlagOf(setFlagOf(w, c, "riskAnalysis", ErrorData), c, "isAnalyzingRisk", FALSE)
      [] c.caller = "handleShowOnMap" ->
            setFlagOf(setFlagOf(w, c, "isLoadingMap", FALSE), c, "loadingMapForAlert", <<>>)

\* the pages' handlers after their await, given the operation's result
\* (part_004 118-134, part_002 476-484, 762-809)
pageOk(w, c, r) ==
    CASE c.caller = "handleSearch" ->
            IF r.kind = "forecast" /\ Truthy(r.content)
            THEN IF JSONparseText(r.content).ok
                 THEN setForecastFlagOf(setForecastOf(w, c, "forecastData", <<1>>), c, FALSE)
                 ELSE pageFail(w, c)
            ELSE setForecastFlagOf(w, c, FALSE)
      [] c.caller = "handleAnalyzeRisk" ->
            setFlagOf(setFlagOf(w, c, "riskAnalysis",
                                IF r.kind = "object" THEN <<1>> ELSE <<>>),
                      c, "isAnalyzingRisk", FALSE)
      [] c.caller = "handleShowOnMap" ->
            setFlagOf(setFlagOf(w, c, "isLoadingMap", FALSE), c, "loadingMapForAlert", <<>>)

\* What the awaiting caller does when the operation throws
callerFail(w, c) ==
    CASE c.caller \in {"severe1", "severe2"} ->
            \* loadSevereWeatherEvents catch/finally (part_002 558-562)
            setFlagOf(w, c, "loadingEvents", FALSE)
      [] c.caller = "national" ->
            \* loadNationalSevereAlerts catch/finally (part_002 695-700)
            setFlagOf(setDashOf(w, c, "alerts", <<>>), c, "loading", FALSE)
      [] c.caller = "loadAlerts" ->
            \* loadAlerts catch/finally (part_002 540-545)
            setFlagOf(setDashOf(w, c, "agentResponse", <<2>>), c, "loading", FALSE)
      [] c.caller \in PageCallers -> pageFail(w, c)
      [] OTHER -> w

\* What the awaiting caller does with the operation's result
callerOk(w, c, payload) ==
    CASE c.caller = "severe1" ->
            \* getSevereWeatherEvents goes on to its second query (api.js 644)
            LET w1 == queryStart(w, "query", "severe2", c.depth)
            IN  [w1 EXCEPT !.calls[newest(w1)].live = c.live]
      [] c.caller = "severe2" ->
            \* setSevereEvents(events) and finally (part_002 555-562)
            setFlagOf(setDashOf(w, c, "severeEvents", payload), c, "loadingEvents", FALSE)
      [] c.caller = "national" ->
            \* part_002 686-700
            setFlagOf(setDashOf(w, c, "alerts", payload), c, "loading", FALSE)
      [] c.caller = "loadAlerts" ->
            \* part_002 496-545: the alerts and a non-empty message
            LET w1 == setDashOf(w, c, "alerts", payload)
                w2 == setDashOf(w1, c, "agentResponse", <<1>>)
            IN  setFlagOf(w2, c, "loading", FALSE)
      [] c.caller \in PageCallers ->
            pageOk(w, c, IF payload = <<>> THEN OnNoText(c.op, "", c.sid)
                         ELSE OnParsed(c.op, "{a}", "a", c.sid))
      [] OTHER -> w

\* The operation's catch block for an error with the given HTTP status (0: none),
\* then the caller's. geocode swallows the error and returns null.
fail_AlwaysResets(w, id, status) ==
    LET c == w.calls[id]
        w2 == clearBrowserState(dropCall(w, id), c.depth + 1)
    IN  IF c.op = "geocode" THEN callerOk(w2, c, <<>>) ELSE callerFail(w2, c)

fail(w, id, status) ==
    LET c == w.calls[id]
        w1 == dropCall(w, id)
        w2 == IF CatchResets(c.op, status)
              THEN clearBrowserState(w1, c.depth + 1) ELSE w1
    IN  IF c.op = "geocode" THEN callerOk(w2, c, <<>>) ELSE callerFail(w2, c)

\* The operation after its session id is known: read the image, or POST /run
haveSession(w, id, sid) ==
    LET c == w.calls[id]
    IN  IF c.op \in ImageOps
        THEN setCall(w, id, [c EXCEPT !.sid = sid, !.pc = "image"])
        ELSE setCall(post(w, RunRequest(c.op, sid, c.depth)), id,
                     [c EXCEPT !.sid = sid, !.pc = "run"])

\* getOrCreateSession after its POST resolved (api.js 147-154)
storeSession(w, sid) ==
    [w EXCEPT !.ls = setItem(setItem(@, SESSION_STORAGE_KEY, sid),
                             SESSION_TIMESTAMP_KEY, NumToString(w.now))]

\* The Dashboard's first render, its first effects and its mount effect
\* (part_002 262-328, 411-436, 453).
\* Mutant: the mount effect forgets to set its flag
markInitialLoad_Never(w) == w

\* sessionStorage.setItem('dashboardInitialLoad', 'true') (part_002 416)
markInitialLoad(w) == [w EXCEPT !.ss = setItem(@, "dashboardInitialLoad", <<1>>)]

mountDashboard(w) ==
    LET savedA == getItem(w.ls, "dashboardAlerts")
        savedE == getItem(w.ls, "dashboardSevereEvents")
        savedRegion == getItem(w.ls, "dashboardSelectedRegion")
        d0 == [mounted |-> TRUE,
               alerts |-> IF Falsy(savedA) THEN <<>> ELSE JSONparse(savedA),
               severeEvents |-> IF Falsy(savedE) THEN <<>> ELSE JSONparse(savedE),
               agentResponse |-> getItem(w.ls, "dashboardResponse"),
               location |-> getItem(w.ls, "dashboardLocation"),
               selectedState |-> getItem(w.ls, "dashboardSelectedState"),
               selectedRegion |-> IF Falsy(savedRegion) THEN <<1>> ELSE savedRegion,
               loading |-> FALSE, loadingEvents |-> FALSE,
               isAnalyzingRisk |-> FALSE, riskAnalysis |-> <<>>,
               isLoadingMap |-> FALSE, loadingMapForAlert |-> <<>>,
               isDemoMode |-> w.dash.isDemoMode, isRiskModalOpen |-> FALSE,
               mapMarkers |-> <<>>, timers |-> {}, effectDeps |-> <<>>,
               initialLoads |-> w.dash.initialLoads]
        ls0 == setItem(setItem(w.ls, "dashboardSelectedState", d0.selectedState),
                       "dashboardSelectedRegion", d0.selectedRegion)
        w0 == [w EXCEPT !.dash = d0, !.ls = ls0]
        noAlerts == Falsy(savedA) \/ savedA = JSONstringify(<<>>)
        noEvents == Falsy(savedE) \/ savedE = JSONstringify(<<>>)
        w1 == markInitialLoad(IF noAlerts
                              THEN [w0 EXCEPT !.dash.initialLoads = IF @ >= 2 THEN 2 ELSE @ + 1]
                              ELSE w0)
        w2 == IF noAlerts
              THEN loadAlerts(setDash(setSelected(w1, "selectedRegion", <<1>>),
                                      "location", <<1>>),
                              FALSE, 0)
              ELSE IF savedRegion = <<1>> THEN setSelected(w1, "selectedRegion", <<1>>)
              ELSE w1
        w3 == IF noEvents THEN loadSevereWeatherEvents(w2, FALSE, 0) ELSE w2
    IN  IF Falsy(getItem(w.ss, "dashboardInitialLoad")) THEN w3 ELSE w0

\* A region button of the Dashboard (part_002 821-827): the region's name and
\* its list of states, which becomes the location
handleSelectRegion(w, regionName) ==
    LET w1 == setSelected(w, "selectedRegion", regionName)
        w2 == setSelected(w1, "selectedState", <<>>)
        w3 == setDash(w2, "location", regionName)
    IN  loadAlerts(w3, w.dash.loading, 0)

\* The Forecast page's first render and its first effects (part_004 29-52)
mountForecast(w) ==
    LET saved == getItem(w.ls, "forecastData")
        f0 == [mounted |-> TRUE, location |-> getItem(w.ls, "forecastLocation"),
               forecastData |-> IF Falsy(saved) THEN <<>> ELSE JSONparse(saved),
               loading |-> FALSE]
        ls1 == IF Falsy(f0.location) THEN removeItem(w.ls, "forecastLocation")
               ELSE setItem(w.ls, "forecastLocation", f0.location)
        ls2 == IF f0.forecastData = <<>> THEN removeItem(ls1, "forecastData")
               ELSE setItem(ls1, "forecastData", JSONstringify(f0.forecastData))
    IN  [w EXCEPT !.forecast = f0, !.ls = ls2]

\* Forecast handleSearch up to its await (part_004 113-119)
handleSearch(w) ==
    IF Falsy(w.forecast.location) THEN w
    ELSE LET w1 == [w EXCEPT !.forecast.loading = TRUE]
             w2 == setForecast(w1, "forecastData", <<>>)
         IN  agentStart(w2, "getForecast", "handleSearch", 0)

\* Dashboard handleAnalyzeRisk up to its await, in live mode (part_002 461-476)
handleAnalyzeRisk(w) ==
    agentStart([w EXCEPT !.dash.isAnalyzingRisk = TRUE, !.dash.riskAnalysis = <<>>],
               "analyzeRisk", "handleAnalyzeRisk", 0)

\* Dashboard handleShowOnMap up to its await, outside the demo tour
\* (part_002 738-765); an alert without affected zones needs no request and
\* the handler ends at once (790-803)
handleShowOnMap(w, alertIndex, hasZones) ==
    LET w1 == [w EXCEPT !.dash.isLoadingMap = TRUE,
                        !.dash.loadingMapForAlert = <<alertIndex>>]
    IN  IF hasZones THEN agentStart(w1, "getMapForZones", "handleShowOnMap", 0)
        ELSE [w1 EXCEPT !.dash.isLoadingMap = FALSE, !.dash.loadingMapForAlert = <<>>]

\* resetSession (api.js 122-127)
resetSession(w) ==
    clearBrowserState([w EXCEPT !.ls = removeItem(removeItem(@, SESSION_STORAGE_KEY),
                                                  SESSION_TIMESTAMP_KEY)], 0)

\* The Dashboard's Refresh button (part_002 830-848). Its loaders are those of
\* the render the button was clicked in, so they test that render's flags.
handleRefresh(w) ==
    LET w1 == resetSession(w)
        w2 == [w1 EXCEPT !.ss = removeItem(@, "weatherAlerts"),
                         !.ls = removeItem(removeItem(removeItem(removeItem(@,
                                    "dashboardResponse"), "dashboardLocation"),
                                    "dashboardSevereEvents"), "dashboardAlerts")]
        w3 == setDash(w2, "location", <<>>)
        w4 == setDash(w3, "severeEvents", <<>>)
        w5 == setDash(w4, "alerts", <<>>)
        w6 == setDash(w5, "agentResponse", <<>>)
        w7 == loadSevereWeatherEvents(w6, w.dash.loadingEvents, 0)
    IN  loadNationalSevereAlerts(w7, w.dash.loading, 0)

\* ---------------------------------------------------------------- actions

\* The bound on the calls started: a step that would exceed it is not taken
Within(w, limit) == w.nextCall - 1 <= limit

Commit(w, what) ==
    /\ now' = w.now
    /\ localStorage' = w.ls
    /\ sessionStorage' = w.ss
    /\ events' = w.events
    /\ calls' = w.calls
    /\ nextCall' = w.nextCall
    /\ sent' = w.log
    /\ dash' = w.dash
    /\ forecast' = w.forecast
    /\ last' = what
    /\ UNCHANGED <<mainPc, loopIdx, exitCode, successCount, failedCount, waited,
                   procPc, procUrl, locks, envFile>>
    /\ UNCHANGED <<isTourActive, currentStep, hasCompletedTour, pathname>>

Step(kind, op, status, depth) ==
    [kind |-> kind, op |-> op, status |-> status, depth |-> depth]

\* A page calls an API operation on a user action
UserCall(op, limit) ==
    /\ Within(apiStart(World, op, "user", 0), limit)
    /\ Commit(apiStart(World, op, "user", 0), Step("start", op, 0, 0))
    /\ UNCHANGED issued

\* The user opens the Dashboard
Mount(limit) ==
    /\ ~dash.mounted
    /\ ~forecast.mounted
    /\ Within(mountDashboard(World), limit)
    /\ Commit(mountDashboard(World), Step("mount", "", 0, 0))
    /\ UNCHANGED issued

\* The user leaves the Dashboard: the listener is removed (part_002 455-457)
\* and the component's pending continuations no longer reach a mounted component
Unmount ==
    /\ dash.mounted
    /\ Commit([World EXCEPT !.dash.mounted = FALSE,
                            !.calls = [i \in DOMAIN calls |-> [calls[i] EXCEPT !.live = FALSE]]],
              Step("unmount", "", 0, 0))
    /\ UNCHANGED issued

\* The user clicks a region button of the Dashboard
SelectRegion(regionName, limit) ==
    /\ dash.mounted
    /\ Within(handleSelectRegion(World, regionName), limit)
    /\ Commit(handleSelectRegion(World, regionName), Step("region", "", 0, 0))
    /\ UNCHANGED issued

\* the name of a region button other than National
Regions == {<<2>>}

\* The user clicks Refresh on the Dashboard
Refresh(limit) ==
    /\ dash.mounted
    /\ Within(handleRefresh(World), limit)
    /\ Commit(handleRefresh(World), Step("refresh", "", 0, 0))
    /\ UNCHANGED issued

\* The user opens the Forecast page
MountForecast ==
    /\ ~forecast.mounted
    /\ ~dash.mounted
    /\ Commit(mountForecast(World), Step("mountForecast", "", 0, 0))
    /\ UNCHANGED issued

\* The user leaves the Forecast page: its listener is removed (part_004 67-69)
UnmountForecast ==
    /\ forecast.mounted
    /\ Commit([World EXCEPT !.forecast.mounted = FALSE,
                            !.calls = [i \in DOMAIN calls |-> [calls[i] EXCEPT !.live = FALSE]]],
              Step("unmountForecast", "", 0, 0))
    /\ UNCHANGED issued

\* The user types a location into the Forecast page's search box (part_004 158)
TypeLocation(loc) ==
    /\ forecast.mounted
    /\ forecast.location # loc
    /\ Commit(setForecast(World, "location", loc), Step("type", "", 0, 0))
    /\ UNCHANGED issued

\* The user submits the Forecast page's search form
Search(limit) ==
    /\ forecast.mounted
    /\ Within(handleSearch(World), limit)
    /\ Commit(handleSearch(World), Step("search", "", 0, 0))
    /\ UNCHANGED issued

\* The user clicks Analyze Risk on an alert card of the Dashboard
AnalyzeRisk(limit) ==
    /\ dash.mounted
    /\ dash.alerts # <<>>
    /\ Within(handleAnalyzeRisk(World), limit)
    /\ Commit(handleAnalyzeRisk(World), Step("analyzeRisk", "", 0, 0))
    /\ UNCHANGED issued

\* The user clicks Show on Map on an alert card of the Dashboard
ShowOnMap(hasZones, limit) ==
    /\ dash.mounted
    /\ dash.alerts # <<>>
    /\ Within(handleShowOnMap(World, 0, hasZones), limit)
    /\ Commit(handleShowOnMap(World, 0, hasZones), Step("showOnMap", "", 0, 0))
    /\ UNCHANGED issued

\* what the user can type: nothing, or a place
Locations == {<<>>, <<1>>}

\* The session-creation POST of call id succeeds: the server returns a fresh id
\* (a call creates at most one session, so its own number is one)
SessionCreated(id) ==
    /\ calls[id].pc = "session"
    /\ LET c == calls[id]
           sid == <<id>>
           w1 == IF c.op \in ChatOps THEN storeSession(World, sid) ELSE World
       IN  /\ Commit(haveSession(w1, id, sid), Step("session", c.op, 200, c.depth))
           /\ issued' = issued \cup {[agent |-> ClientOf(c.op), sid |-> sid]}

\* A request of call id fails: an error status, or no response at all
RequestFails(id, status, limit) ==
    /\ calls[id].pc \in {"session", "run"}
    /\ status # 200
    /\ Within(fail(World, id, status), limit)
    /\ Commit(fail(World, id, status),
              [kind |-> "failed", op |-> calls[id].op, status |-> status,
               depth |-> calls[id].depth, posts |-> calls[id].posts])
    /\ UNCHANGED issued

\* The FileReader of an image operation finishes (api.js 245-254, 695-704)
ImageRead(id, ok) ==
    /\ calls[id].pc = "image"
    /\ LET c == calls[id]
       IN  IF ok
           THEN Commit(setCall(post(World, RunRequest(c.op, c.sid, c.depth)), id,
                               [c EXCEPT !.pc = "run"]),
                       Step("image", c.op, 200, c.depth))
           ELSE Commit(fail(World, id, 0), Step("failed", c.op, 0, c.depth))
    /\ UNCHANGED issued

\* The /run request of call id succeeds
RunSucceeds(id, payload, limit) ==
    /\ calls[id].pc = "run"
    /\ Within(callerOk(dropCall(World, id), calls[id], payload), limit)
    /\ LET c == calls[id]
           w1 == IF c.op = "geocode" THEN World ELSE updateSessionTimestamp(World)
       IN  Commit(callerOk(dropCall(w1, id), c, payload), Step("done", c.op, 200, c.depth))
    /\ UNCHANGED issued

\* what the Dashboard's loaders extract from an operation's result: the alerts
\* of the parsed summary, the events found in a query's text
PayloadOf(r) ==
    IF r.kind = "object" \/ (r.kind = "query" /\ r.content # "") THEN <<1>> ELSE <<>>

\* The /run request of call id is answered with response.data = data
RunResponds(id, data, limit) ==
    /\ calls[id].pc = "run"
    /\ LET c == calls[id]
           r == Result(c.op, c.sid, data)
           w1 == IF UpdatesTimestamp(c.op, data)
                 THEN updateSessionTimestamp(World) ELSE World
           w2 == IF c.caller \in PageCallers THEN pageOk(dropCall(w1, id), c, r)
                 ELSE callerOk(dropCall(w1, id), c, PayloadOf(r))
       IN  /\ Within(w2, limit)
           /\ Commit(w2, [kind |-> "responded", op |-> c.op, status |-> 200,
                          depth |-> c.depth, sid |-> c.sid, data |-> data,
                          result |-> r])
    /\ UNCHANGED issued

\* Time passes
Tick(d) ==
    /\ now + d <= SESSION_TIMEOUT + MaxSlack
    /\ d = 1 => now % SESSION_TIMEOUT < MaxSlack
    /\ Commit([World EXCEPT !.now = now + d], Step("tick", "", 0, 0))
    /\ UNCHANGED issued

Payloads == {<<>>, <<1>>}

\* localStorage as earlier visits of the page can have left it
InitStores ==
    { <<>>,
      [k \in {SESSION_STORAGE_KEY, SESSION_TIMESTAMP_KEY} |-> <<0>>],
      [k \in {SESSION_STORAGE_KEY, SESSION_TIMESTAMP_KEY, "dashboardAlerts",
              "dashboardResponse", "forecastData", "tourCompleted"} |->
          CASE k = "dashboardAlerts" -> JSONstringify(<<1>>)
            [] k = "tourCompleted" -> <<1>>
            [] k = "dashboardResponse" -> <<1>>
            [] k = "forecastData" -> JSONstringify(<<1>>)
            [] OTHER -> <<0>>] }

InitApi(stores) ==
    /\ now = 0
    /\ localStorage \in stores
    /\ sessionStorage = <<>>
    /\ events = 0
    /\ calls = <<>>
    /\ nextCall = 1
    /\ sent = {}
    /\ issued = IF SESSION_STORAGE_KEY \in DOMAIN localStorage
                THEN {[agent |-> "chat", sid |-> <<0>>]} ELSE {}
    /\ dash = [mounted |-> FALSE, alerts |-> <<>>, severeEvents |-> <<>>,
               agentResponse |-> <<>>, location |-> <<>>,
               selectedState |-> <<>>, selectedRegion |-> <<>>,
               loading |-> FALSE, loadingEvents |-> FALSE,
               isAnalyzingRisk |-> FALSE, riskAnalysis |-> <<>>,
               isLoadingMap |-> FALSE, loadingMapForAlert |-> <<>>,
               isDemoMode |-> FALSE, isRiskModalOpen |-> FALSE, mapMarkers |-> <<>>,
               timers |-> {}, effectDeps |-> <<>>, initialLoads |-> 0]
    /\ forecast = [mounted |-> FALSE, location |-> <<>>, forecastData |-> <<>>,
                   loading |-> FALSE]
    /\ last = Step("init", "", 0, 0)

\* ======================================================================
\* deploy_agents_lab.sh
\* ======================================================================


NumAgents == 3     \* the entries of AGENTS_TO_DEPLOY that are deployed in the model

\* AGENTS_TO_DEPLOY: the service names (deploy_agents_lab.sh 18-25)
AGENTS_TO_DEPLOY ==
    << "weather-alerts-snapshot-agent",
       "weather-emergency-resources-agent",
       "weather-forecast-agent",
       "weather-risk-analysis-agent",
       "weather-hurricane-simulation-agent",
       "weather-chat-agent" >>

Agents == 1..NumAgents

ServiceName(a) == AGENTS_TO_DEPLOY[((a - 1) % Len(AGENTS_TO_DEPLOY)) + 1]

\* tr '[:lower:]' '[:upper:]' | tr '-' '_' on one character
TrChar(c) ==
    CASE c = "a" -> "A" [] c = "b" -> "B" [] c = "c" -> "C" [] c = "d" -> "D"
      [] c = "e" -> "E" [] c = "f" -> "F" [] c = "g" -> "G" [] c = "h" -> "H"
      [] c = "i" -> "I" [] c = "j" -> "J" [] c = "k" -> "K" [] c = "l" -> "L"
      [] c = "m" -> "M" [] c = "n" -> "N" [] c = "o" -> "O" [] c = "p" -> "P"
      [] c = "q" -> "Q" [] c = "r" -> "R" [] c = "s" -> "S" [] c = "t" -> "T"
      [] c = "u" -> "U" [] c = "v" -> "V" [] c = "w" -> "W" [] c = "x" -> "X"
      [] c = "y" -> "Y" [] c = "z" -> "Z" [] c = "-" -> "_" [] OTHER -> c

RECURSIVE Tr(_)
Tr(str) == IF Len(str) = 0 THEN ""
           ELSE TrChar(SubSeq(str, 1, 1)) \o Tr(SubSeq(str, 2, Len(str)))

\* env_var_name (deploy_agents_lab.sh 61)
EnvVarName(service) == Tr(service) \o "_URL"

\* lockfile (deploy_agents_lab.sh 64)
LockFile(service) == "/tmp/deploy_env_" \o service \o ".lock"

\* the line deploy_agent appends (deploy_agents_lab.sh 69)
EnvLine(service, url) == [var |-> "REACT_APP_" \o EnvVarName(service), value |-> url]

\* The exit status of the arithmetic command ((x++)): 1 when the expression's
\* value, the old x, is 0
PostIncrementStatus(x) == IF x = 0 THEN 1 ELSE 0

\* the exit status of deploy_agent (0 after "SUCCESS", exit 1 after "FAILED")
ProcStatus(pc) == IF pc = "ok" THEN 0 ELSE 1

\* what an earlier run can have left in frontend/.env.production
OldLine == [var |-> "REACT_APP_WEATHER_CHAT_AGENT_URL", value |-> "old"]

InitDeploy(lockSets, files) ==
    /\ mainPc = "check"
    /\ loopIdx = 1
    /\ exitCode = 0
    /\ successCount = 0
    /\ failedCount = 0
    /\ waited = {}
    /\ procPc = [a \in Agents |-> "idle"]
    /\ procUrl = [a \in Agents |-> ""]
    /\ locks \in lockSets
    /\ envFile \in files

Exit(code) ==
    /\ mainPc' = "exited"
    /\ exitCode' = code

\* check_command gcloud; check_command adk (deploy_agents_lab.sh 28-33, 85-86)
CheckPrerequisites(installed) ==
    /\ mainPc = "check"
    /\ IF installed THEN mainPc' = "auth" /\ UNCHANGED exitCode ELSE Exit(1)
    /\ UNCHANGED <<loopIdx, successCount, failedCount, waited, procPc, procUrl, locks, envFile>>
    /\ UNCHANGED <<apiVars, tourVars>>

\* gcloud auth login; gcloud config set project, under set -e (89-91)
Authenticate(ok) ==
    /\ mainPc = "auth"
    /\ IF ok THEN mainPc' = "prepare" /\ UNCHANGED exitCode ELSE Exit(1)
    /\ UNCHANGED <<loopIdx, successCount, failedCount, waited, procPc, procUrl, locks, envFile>>
    /\ UNCHANGED <<apiVars, tourVars>>

\* Mutant: the old env file is kept
Prepare_KeepsFile ==
    /\ mainPc = "prepare"
    /\ mainPc' = "launch"
    /\ loopIdx' = 1
    /\ UNCHANGED <<exitCode, successCount, failedCount, waited, procPc, procUrl, locks, envFile>>
    /\ UNCHANGED <<apiVars, tourVars>>

\* rm and touch of frontend/.env.production, the logs directory (93-102)
Prepare ==
    /\ mainPc = "prepare"
    /\ envFile' = <<>>
    /\ mainPc' = "launch"
    /\ loopIdx' = 1
    /\ UNCHANGED <<exitCode, successCount, failedCount, waited, procPc, procUrl, locks>>
    /\ UNCHANGED <<apiVars, tourVars>>

\* one iteration of the launch loop: deploy_agent ... & (110-125)
Launch ==
    /\ mainPc = "launch"
    /\ IF loopIdx <= NumAgents
       THEN /\ procPc' = [procPc EXCEPT ![loopIdx] = "adk"]
            /\ loopIdx' = loopIdx + 1
            /\ UNCHANGED <<mainPc, successCount, failedCount>>
       ELSE /\ mainPc' = "wait"
            /\ loopIdx' = 1
            /\ successCount' = 0
            /\ failedCount' = 0
            /\ UNCHANGED procPc
    /\ UNCHANGED <<exitCode, waited, procUrl, locks, envFile>>
    /\ UNCHANGED <<apiVars, tourVars>>

\* One iteration of the wait loop (136-149): wait "$pid" returns once the
\* process has ended, and the counter is incremented with ((x++)) under set -e.
\* After the loop, the summary and the final exit status (151-177).
Wait ==
    /\ mainPc = "wait"
    /\ IF loopIdx <= NumAgents
       THEN /\ procPc[loopIdx] \in {"ok", "failed"}
            /\ waited' = waited \cup {loopIdx}
            /\ LET succeeded == ProcStatus(procPc[loopIdx]) = 0
                   old == IF succeeded THEN successCount ELSE failedCount
               IN  /\ successCount' = IF succeeded THEN successCount + 1 ELSE successCount
                   /\ failedCount' = IF succeeded THEN failedCount ELSE failedCount + 1
                   /\ IF PostIncrementStatus(old) # 0
                      THEN Exit(1) /\ UNCHANGED loopIdx
                      ELSE loopIdx' = loopIdx + 1 /\ UNCHANGED <<mainPc, exitCode>>
       ELSE /\ IF failedCount > 0 THEN Exit(1) ELSE Exit(0)
            /\ UNCHANGED <<loopIdx, successCount, failedCount, waited>>
    /\ UNCHANGED <<procPc, procUrl, locks, envFile>>
    /\ UNCHANGED <<apiVars, tourVars>>

\* deploy_agent: adk deploy cloud_run ends (46-54, 74-78)
AdkDeploy(a, ok) ==
    /\ procPc[a] = "adk"
    /\ procPc' = [procPc EXCEPT ![a] = IF ok THEN "describe" ELSE "failed"]
    /\ UNCHANGED <<mainPc, loopIdx, exitCode, successCount, failedCount, waited, procUrl, locks, envFile>>
    /\ UNCHANGED <<apiVars, tourVars>>

\* deploy_agent: local service_url=$(gcloud run services describe ... 2>&1) (57);
\* `local` hides the command's status, so its output is taken whatever it is
Describe(a, output) ==
    /\ procPc[a] = "describe"
    /\ procUrl' = [procUrl EXCEPT ![a] = output]
    /\ procPc' = [procPc EXCEPT ![a] = "lock"]
    /\ UNCHANGED <<mainPc, loopIdx, exitCode, successCount, failedCount, waited, locks, envFile>>
    /\ UNCHANGED <<apiVars, tourVars>>

\* deploy_agent: while ! mkdir "$lockfile" (64-67): mkdir succeeds
AcquireLock(a) ==
    /\ procPc[a] = "lock"
    /\ LockFile(ServiceName(a)) \notin locks
    /\ locks' = locks \cup {LockFile(ServiceName(a))}
    /\ procPc' = [procPc EXCEPT ![a] = "append"]
    /\ UNCHANGED <<mainPc, loopIdx, exitCode, successCount, failedCount, waited, procUrl, envFile>>
    /\ UNCHANGED <<apiVars, tourVars>>

\* deploy_agent: echo "REACT_APP_$env_var_name=$service_url" >> file (69)
AppendEnv(a) ==
    /\ procPc[a] = "append"
    /\ envFile' = Append(envFile, EnvLine(ServiceName(a), procUrl[a]))
    /\ procPc' = [procPc EXCEPT ![a] = "unlock"]
    /\ UNCHANGED <<mainPc, loopIdx, exitCode, successCount, failedCount, waited, procUrl, locks>>
    /\ UNCHANGED <<apiVars, tourVars>>

\* deploy_agent: rmdir "$lockfile" and the end of the function (70-73)
ReleaseLock(a) ==
    /\ procPc[a] = "unlock"
    /\ locks' = locks \ {LockFile(ServiceName(a))}
    /\ procPc' = [procPc EXCEPT ![a] = "ok"]
    /\ UNCHANGED <<mainPc, loopIdx, exitCode, successCount, failedCount, waited, procUrl, envFile>>
    /\ UNCHANGED <<apiVars, tourVars>>

DescribeOutputs == {"https://service.run.app", "ERROR"}

NextDeploy ==
    \/ \E installed \in BOOLEAN : CheckPrerequisites(installed)
    \/ \E ok \in BOOLEAN : Authenticate(ok)
    \/ Prepare
    \/ Launch
    \/ Wait
    \/ \E a \in Agents, ok \in BOOLEAN : AdkDeploy(a, ok)
    \/ \E a \in Agents, output \in DescribeOutputs : Describe(a, output)
    \/ \E a \in Agents : AcquireLock(a)
    \/ \E a \in Agents : AppendEnv(a)
    \/ \E a \in Agents : ReleaseLock(a)

\* ======================================================================
\* The guided tour (TourContext, TourGuide)
\* ======================================================================


\* tourSteps: the id and the page of each step (part_000 20-117)
tourSteps ==
    << [id |-> "welcome", page |-> "/"],
       [id |-> "demo-mode", page |-> "/"],
       [id |-> "dashboard-alerts-scroll", page |-> "/"],
       [id |-> "risk-analysis-button", page |-> "/"],
       [id |-> "risk-analysis-modal", page |-> "/"],
       [id |-> "show-map-button", page |-> "/"],
       [id |-> "dashboard-map", page |-> "/"],
       [id |-> "emergency-resources", page |-> "/emergency-resources"],
       [id |-> "chat-page", page |-> "/chat"],
       [id |-> "forecast-page", page |-> "/forecast"],
       [id |-> "hurricane-simulation", page |-> "/hurricane-simulation"],
       [id |-> "complete", page |-> "/hurricane-simulation"] >>

\* tourSteps.length
TourLength == Len(tourSteps)

\* getCurrentStep: tourSteps[currentStep], undefined (<<>>) outside the array
getCurrentStep(i) == IF i \in 0..(TourLength - 1) THEN tourSteps[i + 1] ELSE <<>>

Pages == {"/", "/emergency-resources", "/chat", "/forecast", "/hurricane-simulation", "/alerts"}

\* Mutant: off by one, the last step has a next one
HasNextStep_OffByOne(i) == i < TourLength

\* the test of nextStep: is there a step after this one
HasNextStep(i) == i < TourLength - 1

\* the test of previousStep
HasPreviousStep(i) == i > 0

InitTour(page) ==
    /\ isTourActive = FALSE
    /\ currentStep = 0
    /\ hasCompletedTour = (getItem(localStorage, "tourCompleted") = <<1>>)
    /\ pathname = page

startTour ==
    /\ isTourActive' = TRUE
    /\ currentStep' = 0
    /\ UNCHANGED <<hasCompletedTour, pathname, localStorage>>
    /\ UNCHANGED <<apiOnly, deployVars>>

\* Mutant: completing the tour only closes it
completeTour_NoFlag ==
    /\ isTourActive' = FALSE
    /\ currentStep' = 0
    /\ UNCHANGED <<hasCompletedTour, pathname, localStorage>>
    /\ UNCHANGED <<apiOnly, deployVars>>

completeTour ==
    /\ isTourActive' = FALSE
    /\ currentStep' = 0
    /\ hasCompletedTour' = TRUE
    /\ localStorage' = setItem(localStorage, "tourCompleted", <<1>>)
    /\ UNCHANGED pathname
    /\ UNCHANGED <<apiOnly, deployVars>>

nextStep ==
    IF HasNextStep(currentStep)
    THEN /\ currentStep' = currentStep + 1
         /\ UNCHANGED <<isTourActive, hasCompletedTour, pathname, localStorage>>
         /\ UNCHANGED <<apiOnly, deployVars>>
    ELSE completeTour

previousStep ==
    /\ currentStep' = IF HasPreviousStep(currentStep) THEN currentStep - 1 ELSE currentStep
    /\ UNCHANGED <<isTourActive, hasCompletedTour, pathname, localStorage>>
    /\ UNCHANGED <<apiOnly, deployVars>>

\* Mutant: closing the tour marks it completed
skipTour_Completes ==
    /\ isTourActive' = FALSE
    /\ currentStep' = 0
    /\ hasCompletedTour' = TRUE
    /\ localStorage' = setItem(localStorage, "tourCompleted", <<1>>)
    /\ UNCHANGED pathname
    /\ UNCHANGED <<apiOnly, deployVars>>

skipTour ==
    /\ isTourActive' = FALSE
    /\ currentStep' = 0
    /\ UNCHANGED <<hasCompletedTour, pathname, localStorage>>
    /\ UNCHANGED <<apiOnly, deployVars>>

resetTour ==
    /\ hasCompletedTour' = FALSE
    /\ localStorage' = removeItem(localStorage, "tourCompleted")
    /\ UNCHANGED <<isTourActive, currentStep, pathname>>
    /\ UNCHANGED <<apiOnly, deployVars>>

\* TourGuide's navigation effect (TourGuide.jsx 26-31)
\* Mutant: the effect navigates to the Dashboard whatever the step's page
NavigateToStep_Home ==
    /\ isTourActive
    /\ getCurrentStep(currentStep) # <<>>
    /\ pathname # getCurrentStep(currentStep).page
    /\ pathname' = "/"
    /\ UNCHANGED <<isTourActive, currentStep, hasCompletedTour, localStorage>>
    /\ UNCHANGED <<apiOnly, deployVars>>

NavigateToStep ==
    /\ isTourActive
    /\ getCurrentStep(currentStep) # <<>>
    /\ pathname # getCurrentStep(currentStep).page
    /\ pathname' = getCurrentStep(currentStep).page
    /\ UNCHANGED <<isTourActive, currentStep, hasCompletedTour, localStorage>>
    /\ UNCHANGED <<apiOnly, deployVars>>

\* the user follows a link of the application
UserNavigate(page) ==
    /\ pathname # page
    /\ pathname' = page
    /\ UNCHANGED <<isTourActive, currentStep, hasCompletedTour, localStorage>>
    /\ UNCHANGED <<apiOnly, deployVars>>

NextTour ==
    \/ startTour
    \/ nextStep
    \/ previousStep
    \/ skipTour
    \/ completeTour
    \/ resetTour
    \/ NavigateToStep
    \/ \E page \in Pages : UserNavigate(page)

\* ---- the Dashboard's tour effect in demo mode (part_002 330-409)

\* the dependency array of the effect as the current render has it
\* (part_002 409; tourSteps never changes)
TourEffectDeps(d) == <<isTourActive, currentStep, d.isDemoMode, d.isRiskModalOpen>>

\* React runs the effect after a render in which a dependency changed, and
\* after the first render
EffectPending == dash.mounted /\ dash.effectDeps # TourEffectDeps(dash)

\* setSelectedAlertForAnalysis, setRiskAnalysis(mockRiskAnalysis) and
\* setIsRiskModalOpen(true) (part_002 364-366, 373-375)
openRiskModal(w) ==
    [w EXCEPT !.dash.riskAnalysis = <<1>>, !.dash.isRiskModalOpen = TRUE]

\* setMapMarkers(mockDashboardData.map_data.markers) with setMapView
\* (part_002 386-392, 400-406)
showMockMarkers(w) == [w EXCEPT !.dash.mapMarkers = <<1>>]

\* the body of the effect for the step with this id (part_002 331-408)
tourEffect(w, id) ==
    LET deps == TourEffectDeps(w.dash)
        w1 == IF id \in {"dashboard-alerts-scroll", "risk-analysis-button",
                          "risk-analysis-modal", "show-map-button", "dashboard-map"}
              THEN LET a == setDash(w, "alerts", <<1>>)
                       b == setDash(a, "agentResponse", <<1>>)
                       c == setDash(b, "location", <<3>>)
                       d == setSelected(c, "selectedRegion", <<2>>)
                   IN  IF id \in {"dashboard-alerts-scroll", "risk-analysis-button",
                                  "risk-analysis-modal"}
                       THEN [d EXCEPT !.dash.mapMarkers = <<>>] ELSE d
              ELSE w
        w2 == IF id = "risk-analysis-button"
              THEN [w1 EXCEPT !.dash.timers = @ \cup {"open"}] ELSE w1
        w3 == IF id = "risk-analysis-modal" /\ ~w.dash.isRiskModalOpen
              THEN openRiskModal(w2) ELSE w2
        w4 == IF id = "show-map-button"
              THEN [w3 EXCEPT !.dash.timers = @ \cup {"close"}] ELSE w3
        w5 == IF id = "dashboard-map"
              THEN showMockMarkers([w4 EXCEPT !.dash.isRiskModalOpen = FALSE]) ELSE w4
    IN  [w5 EXCEPT !.dash.effectDeps = deps]

\* The effect runs for the render on screen
TourEffect ==
    /\ EffectPending
    /\ LET step == getCurrentStep(currentStep)
           runs == isTourActive /\ dash.isDemoMode /\ step # <<>>
           w == IF runs THEN tourEffect(World, step.id)
                ELSE [World EXCEPT !.dash.effectDeps = TourEffectDeps(dash)]
       IN  Commit(w, Step("effect", "", 0, 0))
    /\ UNCHANGED issued

\* A timer of the effect fires, 800 ms or 500 ms after the effect set it
\* (part_002 362-368, 381-394); nothing cancels it, and React flushes the
\* pending effect before it renders the timer's updates
TimerFires(t) ==
    /\ t \in dash.timers
    /\ ~EffectPending
    /\ LET w0 == [World EXCEPT !.dash.timers = @ \ {t}]
           w1 == IF ~dash.mounted THEN w0
                 ELSE IF t = "open" THEN openRiskModal(w0)
                 ELSE showMockMarkers([w0 EXCEPT !.dash.isRiskModalOpen = FALSE])
       IN  Commit(w1, Step("timer", t, 0, 0))
    /\ UNCHANGED issued

\* The user switches demo mode on (the header's toggle; useDemoMode, part_002 259)
EnterDemoMode ==
    /\ ~dash.isDemoMode
    /\ Commit([World EXCEPT !.dash.isDemoMode = TRUE], Step("demo", "", 0, 0))
    /\ UNCHANGED issued

\* The buttons of the tour, pressed on a screen whose effects have run
PressStart == ~EffectPending /\ ~isTourActive /\ startTour

PressNext == ~EffectPending /\ isTourActive /\ nextStep

PressBack == ~EffectPending /\ isTourActive /\ previousStep

PressSkip == ~EffectPending /\ isTourActive /\ skipTour

\* ======================================================================
\* Specifications
\* ======================================================================

\* The initial state: localStorage as earlier visits left it, the lock
\* directories and the env file as an earlier run of the script left them
Init ==
    /\ InitApi(InitStores)
    /\ InitDeploy({{}}, {<<>>})
    /\ InitTour("/")

InitScript ==
    /\ InitApi({<<>>})
    /\ InitDeploy({{}, {LockFile(ServiceName(1))}}, {<<>>, <<OldLine>>})
    /\ InitTour("/")

\* The API client as the pages other than the Dashboard use it
NextApi ==
    \/ \E op \in Ops : UserCall(op, MaxCalls)
    \/ \E id \in DOMAIN calls : SessionCreated(id)
    \/ \E id \in DOMAIN calls, status \in Statuses : RequestFails(id, status, MaxCalls)
    \/ \E id \in DOMAIN calls, ok \in BOOLEAN : ImageRead(id, ok)
    \/ \E id \in DOMAIN calls, payload \in Payloads : RunSucceeds(id, payload, MaxCalls)
    \/ \E d \in {1, SESSION_TIMEOUT} : Tick(d)

SpecApi == Init /\ [][NextApi]_vars

\* The API client with the Dashboard and the chat page
NextDash ==
    \/ \E op \in ChatOps : UserCall(op, MaxDashCalls)
    \/ Mount(MaxDashCalls)
    \/ Unmount
    \/ \E id \in DOMAIN calls : SessionCreated(id)
    \/ \E id \in DOMAIN calls, status \in Statuses : RequestFails(id, status, MaxDashCalls)
    \/ \E id \in DOMAIN calls, ok \in BOOLEAN : ImageRead(id, ok)
    \/ \E id \in DOMAIN calls, payload \in Payloads : RunSucceeds(id, payload, MaxDashCalls)
    \/ Tick(SESSION_TIMEOUT + 1)

SpecDash == Init /\ [][NextDash]_vars

\* The Dashboard with its Refresh button
NextRefresh ==
    \/ Mount(MaxRefreshCalls)
    \/ Refresh(MaxRefreshCalls)
    \/ \E regionName \in Regions : SelectRegion(regionName, MaxRefreshCalls)
    \/ \E id \in DOMAIN calls : SessionCreated(id)
    \/ \E id \in DOMAIN calls, status \in {404, 500} : RequestFails(id, status, MaxRefreshCalls)
    \/ \E id \in DOMAIN calls, payload \in Payloads : RunSucceeds(id, payload, MaxRefreshCalls)

SpecRefresh == Init /\ [][NextRefresh]_vars

\* The tour provider next to the Dashboard and the session resets
NextTourReset ==
    \/ startTour
    \/ nextStep
    \/ previousStep
    \/ skipTour
    \/ completeTour
    \/ resetTour
    \/ Mount(MaxTourResetCalls)
    \/ Refresh(MaxTourResetCalls)
    \/ \E id \in DOMAIN calls : SessionCreated(id)
    \/ \E id \in DOMAIN calls : RequestFails(id, 404, MaxTourResetCalls)
    \/ \E id \in DOMAIN calls : RunSucceeds(id, <<1>>, MaxTourResetCalls)

SpecTourReset == Init /\ [][NextTourReset]_vars

\* The API client with the content of the agents' responses
NextParse ==
    \/ \E op \in Ops : UserCall(op, MaxParseCalls)
    \/ \E id \in DOMAIN calls : SessionCreated(id)
    \/ \E id \in DOMAIN calls, status \in Statuses : RequestFails(id, status, MaxParseCalls)
    \/ \E id \in DOMAIN calls, ok \in BOOLEAN : ImageRead(id, ok)
    \/ \E id \in DOMAIN calls, data \in Responses : RunResponds(id, data, MaxParseCalls)

SpecParse == Init /\ [][NextParse]_vars

\* The Forecast page and the Dashboard with the handlers of their buttons
NextPages ==
    \/ MountForecast
    \/ UnmountForecast
    \/ \E loc \in Locations : TypeLocation(loc)
    \/ Search(MaxPageCalls)
    \/ Mount(MaxPageCalls)
    \/ Unmount
    \/ \E regionName \in Regions : SelectRegion(regionName, MaxPageCalls)
    \/ AnalyzeRisk(MaxPageCalls)
    \/ \E hasZones \in BOOLEAN : ShowOnMap(hasZones, MaxPageCalls)
    \/ \E id \in DOMAIN calls : SessionCreated(id)
    \/ \E id \in DOMAIN calls, status \in {404, 500, 0} : RequestFails(id, status, MaxPageCalls)
    \/ \E id \in DOMAIN calls, data \in FinalResponses : RunResponds(id, data, MaxPageCalls)

SpecPages == Init /\ [][NextPages]_vars

\* The deployment script and its background processes
SpecDeploy == InitScript /\ [][NextDeploy]_vars

\* The guided tour
SpecTour == Init /\ [][NextTour]_vars

\* A user who, once the tour runs, presses nothing but Next (and Finish, the
\* same button on the last step, TourGuide.jsx 142-148); the pages may change
\* under the tour
NextTourPress ==
    \/ PressStart
    \/ nextStep
    \/ NavigateToStep
    \/ \E page \in Pages : UserNavigate(page)

\* the button stays on screen while the tour is active, and the user keeps
\* pressing it
SpecTourPress == Init /\ [][NextTourPress]_vars /\ WF_vars(isTourActive /\ nextStep)

\* The tour with its navigation effect, which React runs after every render
\* whose step or pathname changed (TourGuide.jsx 26-31)
SpecTourNav == Init /\ [][NextTour]_vars /\ WF_vars(NavigateToStep)

\* The Dashboard under the tour in demo mode
NextTourDemo ==
    \/ Mount(MaxDemoCalls)
    \/ Unmount
    \/ EnterDemoMode
    \/ PressStart
    \/ PressNext
    \/ PressBack
    \/ PressSkip
    \/ TourEffect
    \/ \E t \in {"open", "close"} : TimerFires(t)

SpecTourDemo == Init /\ [][NextTourDemo]_vars

\* The Dashboard mounted and unmounted within one tab, with its Refresh button
\* and the failures and expirations of its requests
NextMounts ==
    \/ Mount(MaxMountCalls)
    \/ Unmount
    \/ Refresh(MaxMountCalls)
    \/ \E id \in DOMAIN calls : SessionCreated(id)
    \/ \E id \in DOMAIN calls, status \in {404, 500} : RequestFails(id, status, MaxMountCalls)
    \/ \E id \in DOMAIN calls, payload \in Payloads : RunSucceeds(id, payload, MaxMountCalls)
    \/ Tick(SESSION_TIMEOUT + 1)

SpecMounts == Init /\ [][NextMounts]_vars

\* The keys localStorage may hold when a reset happens: keys the pages write
\* (part_002 306-328, part_004 38-52, part_000 146), and a key of another
\* script of the origin that contains a prefix without starting with it
\* every selection of those keys, with or without a stored session
ClearStores ==
    { [k \in K \cup S |->
          CASE k \in {SESSION_STORAGE_KEY, SESSION_TIMESTAMP_KEY} -> <<0>>
            [] k \in {"dashboardAlerts", "forecastData"} -> JSONstringify(<<1>>)
            [] OTHER -> <<1>>] :
        K \in SUBSET {"dashboardAlerts", "dashboardLocation", "dashboardFilter",
                      "forecastData", "forecastLocation", "tourCompleted", "mychat"},
        S \in {{}, {SESSION_STORAGE_KEY, SESSION_TIMESTAMP_KEY}} }

InitClear ==
    /\ InitApi(ClearStores)
    /\ InitDeploy({{}}, {<<>>})
    /\ InitTour("/")

\* The chat operations over every such store: a reset happens when the stored
\* session has expired or the server rejects it
NextClear ==
    \/ \E op \in ChatOps : UserCall(op, MaxClearCalls)
    \/ \E id \in DOMAIN calls : SessionCreated(id)
    \/ \E id \in DOMAIN calls, status \in {401, 404, 500} :
            RequestFails(id, status, MaxClearCalls)
    \/ \E id \in DOMAIN calls, ok \in BOOLEAN : ImageRead(id, ok)
    \/ \E id \in DOMAIN calls, payload \in Payloads : RunSucceeds(id, payload, MaxClearCalls)
    \/ \E d \in {1, SESSION_TIMEOUT} : Tick(d)

SpecClear == InitClear /\ [][NextClear]_vars

\* ======================================================================
\* Properties
\* ======================================================================

\* the step just taken was the failure of a request of one of these operations
\* with one of these statuses
Failed(ops, statuses) ==
    last'.kind = "failed" /\ last'.op \in ops /\ last'.status \in statuses

NoResetKey(store) ==
    \A k \in DOMAIN store :
        \A p \in {"dashboard", "weather_agent", "chat", "forecast", "risk", "emergency"} :
            ~StartsWith(k, p)

\* C1: when query or queryWithImage fails with HTTP 401 or 404, then after the
\* failure is handled localStorage holds no key with one of the six prefixes,
\* sessionStorage is empty and exactly one 'sessionExpired' event was dispatched.
C1_ResetOnSessionInvalid ==
    [][Failed({"query", "queryWithImage"}, {401, 404}) =>
          /\ NoResetKey(localStorage')
          /\ DOMAIN sessionStorage' = {}
          /\ events' = events + 1]_vars

\* C1 witness: a query failed with 404 while the Dashboard listened, and the
\* store that held a session and cached data keeps only the tour flag.
C1_Witness ==
    /\ last.kind = "failed" /\ last.op = "query" /\ last.status = 404
    /\ dash.mounted
    /\ events = 1
    /\ DOMAIN localStorage = {"tourCompleted"}

\* C2 as claimed: a 401 or 404 answer to an agent operation triggers the reset.
C2_AgentOpsReset ==
    [][Failed(AgentOps, {401, 404}) => events' = events + 1]_vars

\* C2: a 401 or 404 answer to a request of an agent operation (getAlerts,
\* getForecast, analyzeRisk, findResources, getEvacuationRoute,
\* analyzeHurricaneImage, getMapForZones) does not reset the client: no
\* 'sessionExpired' event is dispatched and no key leaves localStorage or
\* sessionStorage.
C2_AgentOpsDoNotReset ==
    [][Failed(AgentOps, {401, 404}) =>
          /\ events' = events
          /\ \A k \in DOMAIN localStorage :
                k \in DOMAIN localStorage' /\ localStorage'[k] = localStorage[k]
          /\ sessionStorage' = sessionStorage]_vars

\* C2 witness: getAlerts failed with 401 and the stored session is still there.
C2_Witness ==
    /\ last.kind = "failed" /\ last.op = "getAlerts" /\ last.status = 401
    /\ SESSION_STORAGE_KEY \in DOMAIN localStorage
    /\ events = 0

\* C3 as claimed: no HTTP request is sent as a consequence of a failed request;
\* every request descends from a user action with no failure in between.
C3_NoAutomaticRetry == \A r \in sent : r.depth = 0

\* C8 as claimed: every /run request carries app_name, user_id, session_id and
\* new_message, and its session_id was returned by the sessions endpoint of the
\* same agent service.
C8_RunCarriesCreatedSession ==
    \A r \in sent :
        r.path = "run" =>
            /\ {"app_name", "user_id", "session_id", "new_message"} \subseteq r.fields
            /\ [agent |-> r.agent, sid |-> r.session_id] \in issued

\* C9: getOrCreateSession reuses the stored session, sending nothing, exactly
\* when localStorage holds a session id and a timestamp at most 30 minutes old;
\* otherwise it sends exactly one session-creation POST to the chat agent, and
\* when that POST is answered it stores the returned id with the current time
\* and goes on with that id.
C9_GetOrCreateSession ==
    [][/\ (last'.kind = "start" /\ last'.op \in {"query", "queryWithImage"}) =>
            LET c == calls'[nextCall' - 1]
                creations == {r \in sent' : r.path = "sessions"}
                held == {"weather_agent_session_id", "weather_agent_session_timestamp"}
                            \subseteq DOMAIN localStorage
                fresh == IF held
                         THEN now - parseInt(localStorage["weather_agent_session_timestamp"])
                                 <= 30 * 60 * 1000
                         ELSE FALSE
            IN  IF fresh
                THEN /\ creations = {}
                     /\ c.posts = 0
                     /\ c.sid = localStorage["weather_agent_session_id"]
                ELSE /\ Cardinality(creations) = 1
                     /\ \A r \in creations : r.agent = "chat"
                     /\ c.posts = 1
                     /\ c.pc = "session"
       /\ (last'.kind = "session" /\ last'.op \in {"query", "queryWithImage"}) =>
            \E id \in DOMAIN calls :
                /\ calls[id].pc = "session" /\ calls'[id].pc # "session"
                /\ [agent |-> "chat", sid |-> calls'[id].sid] \in issued' \ issued
                /\ localStorage'["weather_agent_session_id"] = calls'[id].sid
                /\ parseInt(localStorage'["weather_agent_session_timestamp"]) = now'
                /\ {r \in sent' : r.path = "sessions"} = {}]_vars

\* C9 witness: a query was started exactly 30 minutes after the stored
\* timestamp and reused the stored session.
C9_Witness ==
    /\ last.kind = "start" /\ last.op = "query"
    /\ now = SESSION_TIMEOUT
    /\ SESSION_STORAGE_KEY \in DOMAIN localStorage
    /\ getItem(localStorage, SESSION_TIMESTAMP_KEY) = <<0>>
    /\ \E id \in DOMAIN calls : calls[id].posts = 0 /\ calls[id].pc = "run"
    /\ \E r \in sent : r.path = "run" /\ r.session_id = localStorage[SESSION_STORAGE_KEY]

\* C8 without geocode: the other operations do create the session they use
\* (what is left of C8 once geocode is set aside).
C8_ExceptGeocode ==
    \A r \in sent :
        (r.path = "run" /\ "session_id" \in r.fields) =>
            [agent |-> r.agent, sid |-> r.session_id] \in issued

\* every deploy_agent process that was started has ended
AllDeploysEnded == \A a \in Agents : procPc[a] \in {"ok", "failed"}

\* C4 as claimed: at most one deploy_agent process at a time is between its
\* successful mkdir of the lock and its rmdir.
C4_AppendsSerialized ==
    Cardinality({a \in Agents : procPc[a] \in {"append", "unlock"}}) <= 1

\* C5 as claimed: once the script has exited after launching the deployments,
\* and they have all ended, its exit status is 0 exactly when every deployment
\* succeeded.
C5_ExitStatusAggregate ==
    (mainPc = "exited" /\ AllDeploysEnded) =>
        (exitCode = 0 <=> \A a \in Agents : procPc[a] = "ok")

\* C6 as claimed: the script exits only after it has waited on every process it
\* started, and when it gets past the wait loop to the summary the two counters
\* add up to the number of agents, each agent counted by its own exit status.
C6_WaitsForEveryPid ==
    mainPc = "exited" =>
        /\ \A a \in Agents : procPc[a] # "idle" => a \in waited
        /\ loopIdx > NumAgents =>
              /\ successCount + failedCount = NumAgents
              /\ successCount = Cardinality({a \in Agents : procPc[a] = "ok"})
              /\ failedCount = Cardinality({a \in Agents : procPc[a] = "failed"})

\* the variable names of the six services, as the frontend expects them
ExpectedVars ==
    << "REACT_APP_WEATHER_ALERTS_SNAPSHOT_AGENT_URL",
       "REACT_APP_WEATHER_EMERGENCY_RESOURCES_AGENT_URL",
       "REACT_APP_WEATHER_FORECAST_AGENT_URL",
       "REACT_APP_WEATHER_RISK_ANALYSIS_AGENT_URL",
       "REACT_APP_WEATHER_HURRICANE_SIMULATION_AGENT_URL",
       "REACT_APP_WEATHER_CHAT_AGENT_URL" >>

LinesOf(a) ==
    {i \in 1..Len(envFile) : envFile[i].var = ExpectedVars[((a - 1) % 6) + 1]}

\* C7: once every deploy_agent process has ended, the env file holds exactly
\* one line REACT_APP_<NAME>_URL=<url> for each agent whose deploy succeeded,
\* none for a failed one, and nothing else (no line of an earlier run).
C7_EnvFileLines ==
    AllDeploysEnded =>
        /\ \A a \in Agents :
              IF procPc[a] = "ok"
              THEN /\ Cardinality(LinesOf(a)) = 1
                   /\ \A i \in LinesOf(a) : envFile[i].value = procUrl[a]
              ELSE LinesOf(a) = {}
        /\ Len(envFile) = Cardinality({a \in Agents : procPc[a] = "ok"})

\* C7 witness: all processes ended, two deploys succeeded and one failed.
C7_Witness ==
    /\ AllDeploysEnded
    /\ procPc[1] = "ok" /\ procPc[2] = "failed" /\ procPc[3] = "ok"
    /\ Len(envFile) = 2

\* C10 as claimed: currentStep stays a valid index and every nextStep moves it
\* by +1, every previousStep by -1 (or leaves it at 0).
C10_StepByOne ==
    /\ [](currentStep \in 0..(Len(tourSteps) - 1))
    /\ [][/\ nextStep => currentStep' = currentStep + 1
          /\ previousStep => \/ currentStep' = currentStep - 1
                             \/ currentStep = 0 /\ currentStep' = 0]_vars

\* C10: currentStep stays a valid index; nextStep moves it by exactly +1 while
\* a later step exists and on the last step ends the tour with currentStep
\* back at 0; previousStep moves it by exactly -1, or leaves it at step 0.
C10_LinearTour ==
    /\ [](currentStep \in 0..(Len(tourSteps) - 1))
    /\ [][/\ nextStep =>
                IF currentStep < Len(tourSteps) - 1
                THEN currentStep' = currentStep + 1
                ELSE currentStep' = 0 /\ ~isTourActive'
          /\ previousStep => \/ currentStep' = currentStep - 1
                             \/ currentStep = 0 /\ currentStep' = 0]_vars

\* C10 witness: the tour is active on its last step.
C10_Witness == isTourActive /\ currentStep = Len(tourSteps) - 1

\* C11: after any sequence of tour operations and session resets,
\* hasCompletedTour is true exactly when localStorage 'tourCompleted' is 'true'.
C11_TourFlagPersisted ==
    hasCompletedTour <=> (getItem(localStorage, "tourCompleted") = <<1>>)

\* C11 witness: the tour was completed and a session reset (the Refresh button)
\* has just cleared the browser state.
C11_Witness ==
    /\ hasCompletedTour
    /\ last.kind = "refresh"
    /\ events > 0
    /\ getItem(localStorage, "tourCompleted") = <<1>>

\* an alert load of the Dashboard is in progress
AlertLoadInProgress ==
    \/ dash.loading
    \/ \E id \in DOMAIN calls :
          calls[id].live /\ calls[id].caller \in {"loadAlerts", "national"}

\* C12 as claimed: while the Dashboard is mounted and no alert load is in
\* progress, localStorage 'dashboardAlerts' holds exactly the alerts of the
\* Dashboard's state, and no alerts when that state is empty.
C12_CachedAlertsMirrorState ==
    (dash.mounted /\ ~AlertLoadInProgress) =>
        IF dash.alerts = <<>>
        THEN getItem(localStorage, "dashboardAlerts") \in {<<>>, JSONstringify(<<>>)}
        ELSE getItem(localStorage, "dashboardAlerts") = JSONstringify(dash.alerts)

\* the final text of a response is there and is not valid JSON
FinalTextNotJSON(data) ==
    /\ "array" \in DOMAIN data /\ Len(data.array) > 0
    /\ LET ev == data.array[Len(data.array)]
       IN  /\ "content" \in DOMAIN ev
           /\ Len(ev.content.parts) > 0
           /\ "text" \in DOMAIN ev.content.parts[1]
           /\ ev.content.parts[1].text = "x"

\* C13: for a /run response whose last event's first text part is not valid
\* JSON, no operation throws: getAlerts, analyzeRisk, findResources,
\* getMapForZones and geocode return null, getEvacuationRoute returns empty
\* content and an empty route list, analyzeHurricaneImage returns
\* {raw_response: text} and getForecast returns the raw text.
C13_ParseFailureResults ==
    [][(last'.kind = "responded" /\ last'.op \in Ops \ ChatOps
            /\ FinalTextNotJSON(last'.data)) =>
          LET r == last'.result
              op == last'.op
          IN  CASE op \in {"getAlerts", "analyzeRisk", "findResources",
                           "getMapForZones", "geocode"} -> r = [kind |-> "null"]
                [] op = "getEvacuationRoute" ->
                     r.kind = "route" /\ r.content = "" /\ r.evacuation_routes = <<>>
                [] op = "analyzeHurricaneImage" ->
                     r = [kind |-> "raw", raw_response |-> "x"]
                [] op = "getForecast" -> r.kind = "forecast" /\ r.content = "x"]_vars

\* C13 witness: analyzeHurricaneImage got prose instead of JSON and returned it
\* as raw_response.
C13_Witness ==
    /\ last.kind = "responded" /\ last.op = "analyzeHurricaneImage"
    /\ FinalTextNotJSON(last.data)
    /\ last.result = [kind |-> "raw", raw_response |-> "x"]

\* the call of this handler settled in the step, its page still being there
Settled(id, caller) ==
    /\ id \in DOMAIN calls /\ id \notin DOMAIN calls'
    /\ calls[id].caller = caller /\ calls[id].live

\* C14: once the request of a page-level load settles, the load's busy flag is
\* cleared: Forecast.handleSearch and Dashboard.loadAlerts set loading to
\* false, handleAnalyzeRisk sets isAnalyzingRisk to false, handleShowOnMap sets
\* isLoadingMap to false and loadingMapForAlert to null; when the request
\* failed, the forecast data, the agent response or the risk analysis holds
\* the fixed error message.
C14_BusyFlagsCleared ==
    [][\A id \in DOMAIN calls :
          /\ Settled(id, "handleSearch") =>
                /\ ~forecast'.loading
                /\ last'.kind = "failed" => forecast'.forecastData = <<9>>
          /\ Settled(id, "loadAlerts") =>
                /\ ~dash'.loading
                /\ last'.kind = "failed" => dash'.agentResponse = <<2>>
          /\ Settled(id, "handleAnalyzeRisk") =>
                /\ ~dash'.isAnalyzingRisk
                /\ last'.kind = "failed" => dash'.riskAnalysis = <<9>>
          /\ Settled(id, "handleShowOnMap") =>
                /\ ~dash'.isLoadingMap
                /\ dash'.loadingMapForAlert = <<>>]_vars

\* C14 witness: a forecast search failed, the page shows the error and is no
\* longer loading.
C14_Witness ==
    /\ last.kind = "failed" /\ last.op = "getForecast"
    /\ forecast.mounted /\ ~forecast.loading
    /\ forecast.forecastData = <<9>>

\* all parts of a response in event order, then part order
RECURSIVE AllParts(_)
AllParts(evs) ==
    IF evs = <<>> THEN <<>>
    ELSE (IF "content" \in DOMAIN evs[1] THEN evs[1].content.parts ELSE <<>>)
           \o AllParts(Tail(evs))

IsTextPart(p) == "text" \in DOMAIN p /\ p.text # ""

RECURSIVE Join(_)
Join(ps) == IF ps = <<>> THEN "" ELSE ps[1].text \o Join(Tail(ps))

\* the concatenation of every non-empty text part of a response
ExpectedContent(data) ==
    Join(SelectSeq(AllParts(IF "array" \in DOMAIN data THEN data.array ELSE <<data.object>>),
                   IsTextPart))

\* C15: query returns as content the concatenation, in event order and then
\* part order, of every non-empty text part of the response (the empty string
\* when there is none), and as session_id the id its /run request carried.
C15_QueryContent ==
    [][/\ \A r \in sent' :
            (r.path = "run" /\ r.app = "chat") =>
                \E id \in DOMAIN calls' :
                    calls'[id].pc = "run" /\ calls'[id].sid = r.session_id
       /\ \A id \in DOMAIN calls :
            (calls[id].op = "query" /\ id \notin DOMAIN calls' /\ last'.kind = "responded") =>
                /\ last'.result.content = ExpectedContent(last'.data)
                /\ last'.result.session_id = calls[id].sid]_vars

\* C15 witness: a response of two events with a text each, a part without text
\* between them.
C15_Witness ==
    /\ last.kind = "responded" /\ last.op = "query"
    /\ "array" \in DOMAIN last.data
    /\ last.data.array = <<[content |-> [parts |-> <<[text |-> "{a}"], [inlineData |-> "img"]>>]],
                           [content |-> [parts |-> <<[text |-> ""], [text |-> "x"]>>]]>>
    /\ last.result.content = "{a}x"

\* the age of the stored session timestamp
StoredAge(store, t) == t - parseInt(getItem(store, SESSION_TIMESTAMP_KEY))

\* C16 as claimed: every API operation that completes successfully rewrites the
\* session timestamp to the current time; a query reuses the stored session
\* exactly when at most 30 minutes passed since that time, and a /run request
\* of query never carries a stored session that is older.
C16_SuccessRefreshesSession ==
    [][/\ last'.kind = "done" =>
             getItem(localStorage', SESSION_TIMESTAMP_KEY) = NumToString(now')
       /\ (/\ last'.kind = "start" /\ last'.op = "query"
           /\ ~Falsy(getItem(localStorage, SESSION_STORAGE_KEY))
           /\ ~Falsy(getItem(localStorage, SESSION_TIMESTAMP_KEY))) =>
             /\ (\E r \in sent' : r.path = "run"
                                  /\ r.session_id = getItem(localStorage, SESSION_STORAGE_KEY))
                    <=> StoredAge(localStorage, now) <= 30 * 60 * 1000
             /\ (\E r \in sent' : r.path = "sessions")
                    <=> StoredAge(localStorage, now) > 30 * 60 * 1000]_vars

\* the rest of C16 holds, and geocode is the only operation whose success
\* leaves the timestamp alone: nothing but a success, a session creation or a
\* removal changes it
C16_ExceptGeocode ==
    [][/\ (last'.kind = "done" /\ last'.op # "geocode") =>
             getItem(localStorage', SESSION_TIMESTAMP_KEY) = NumToString(now')
       /\ (getItem(localStorage', SESSION_TIMESTAMP_KEY)
              # getItem(localStorage, SESSION_TIMESTAMP_KEY)) =>
             (\/ last'.kind \in {"done", "session"}
              \/ SESSION_TIMESTAMP_KEY \notin DOMAIN localStorage')]_vars

\* C17: a query that started with a valid stored session (it posted no
\* session creation) and fails with anything but 401 or 404 leaves
\* localStorage and sessionStorage as they were and dispatches no event.
C17_OtherFailuresKeepStorage ==
    [][(/\ last'.kind = "failed" /\ last'.op = "query"
        /\ "posts" \in DOMAIN last' /\ last'.posts = 0
        /\ last'.status \notin {401, 404}) =>
            /\ localStorage' = localStorage
            /\ sessionStorage' = sessionStorage
            /\ events' = events]_vars

C17_Witness ==
    /\ last.kind = "failed" /\ last.op = "query" /\ last.status \in {500, 0}
    /\ "posts" \in DOMAIN last /\ last.posts = 0
    /\ isSessionValid(localStorage, now)
    /\ getItem(localStorage, SESSION_TIMESTAMP_KEY) # NumToString(now)

\* does the key start with one of the six prefixes the claim names
StartsWithClaimedPrefix(k) ==
    \/ StartsWith(k, "dashboard") \/ StartsWith(k, "weather_agent")
    \/ StartsWith(k, "chat") \/ StartsWith(k, "forecast")
    \/ StartsWith(k, "risk") \/ StartsWith(k, "emergency")

\* C18: a step in which clearBrowserState runs removes every localStorage key
\* that starts with one of the six prefixes, however many there are, and leaves
\* every other key with its value; no key appears.
C18_ClearRemovesPrefixedOnly ==
    [][events' = events + 1 =>
          /\ \A k \in DOMAIN localStorage :
                IF StartsWithClaimedPrefix(k)
                THEN k \notin DOMAIN localStorage'
                ELSE k \in DOMAIN localStorage' /\ localStorage'[k] = localStorage[k]
          /\ DOMAIN localStorage' \subseteq DOMAIN localStorage]_vars

\* C18 witness: a store that held a session rejected with 404 was cleared and
\* keeps exactly its two other keys, the tour flag with its value
C18_Witness ==
    /\ events = 1
    /\ last.kind = "failed" /\ last.status = 404
    /\ DOMAIN localStorage = {"tourCompleted", "mychat"}
    /\ localStorage["tourCompleted"] = <<1>>

\* the state completeTour leaves
TourCompleted ==
    /\ ~isTourActive
    /\ currentStep = 0
    /\ hasCompletedTour
    /\ getItem(localStorage, "tourCompleted") = <<1>>

\* C19: nextStep on the last step completes the tour; before the last step it
\* moves one step forward and leaves the tour running, and the tour of a user
\* who presses only Next ends from the last step only, so that the press number
\* tourSteps.length after startTour, and no earlier one, completes it; a tour
\* that is running is always finished.
C19_NextFinishesTour ==
    /\ [][(isTourActive /\ nextStep) =>
             IF currentStep = Len(tourSteps) - 1
             THEN TourCompleted'
             ELSE /\ currentStep' = currentStep + 1
                  /\ isTourActive'
                  /\ hasCompletedTour' = hasCompletedTour]_vars
    /\ [][PressStart => (isTourActive' /\ currentStep' = 0)]_vars
    /\ [][(isTourActive /\ ~isTourActive') => currentStep = Len(tourSteps) - 1]_vars
    /\ (isTourActive ~> TourCompleted)

\* C19 witness: a first tour was finished, the flag is all the store holds
C19_Witness ==
    /\ TourCompleted
    /\ DOMAIN localStorage = {"tourCompleted"}

\* C20: skipTour deactivates the tour and resets currentStep to 0 without
\* changing hasCompletedTour or localStorage, also from the final 'complete'
\* step where its button reads 'Close'; startTour does not change them either.
C20_SkipKeepsCompletionFlag ==
    [][/\ skipTour =>
            /\ ~isTourActive' /\ currentStep' = 0
            /\ hasCompletedTour' = hasCompletedTour
            /\ localStorage' = localStorage
       /\ startTour =>
            /\ hasCompletedTour' = hasCompletedTour
            /\ getItem(localStorage', "tourCompleted") = getItem(localStorage, "tourCompleted")]_vars

\* C20 witness: the final step is on screen with its Close button, and the
\* tour was never completed
C20_Witness ==
    /\ isTourActive
    /\ getCurrentStep(currentStep) # <<>>
    /\ getCurrentStep(currentStep).id = "complete"
    /\ ~hasCompletedTour
    /\ "tourCompleted" \notin DOMAIN localStorage

\* the pathname is not the page of the step of the running tour
OffStepPage ==
    /\ isTourActive
    /\ getCurrentStep(currentStep) # <<>>
    /\ pathname # getCurrentStep(currentStep).page

\* C21: while the tour is active the route follows the current step: the
\* navigation effect goes to the page of the current step, no step of the tour
\* lacks a page, and whenever the pathname differs from that page it
\* eventually equals it, unless the tour ends first.
C21_RouteFollowsStep ==
    /\ [][NavigateToStep => pathname' = tourSteps[currentStep + 1].page]_vars
    /\ [](isTourActive => getCurrentStep(currentStep) # <<>>)
    /\ (OffStepPage ~> (~isTourActive \/ pathname = getCurrentStep(currentStep).page))

\* C21 witness: the tour reached the chat step and the route followed it
C21_Witness ==
    /\ isTourActive
    /\ getCurrentStep(currentStep) # <<>>
    /\ getCurrentStep(currentStep).id = "chat-page"
    /\ pathname = "/chat"

\* the tour shows the 'dashboard-map' step of the mounted Dashboard in demo mode
OnDashboardMapStep ==
    /\ dash.mounted /\ dash.isDemoMode /\ isTourActive
    /\ getCurrentStep(currentStep) # <<>>
    /\ getCurrentStep(currentStep).id = "dashboard-map"

\* C22 as claimed: once the tour has reached 'dashboard-map' and the effect
\* has run, the modal is closed and the mock markers are shown, and while the
\* tour stays on that step the modal does not open again.
C22_ModalStaysClosed ==
    /\ []((OnDashboardMapStep /\ ~EffectPending) =>
             (~dash.isRiskModalOpen /\ dash.mapMarkers = <<1>>))
    /\ [][(OnDashboardMapStep /\ OnDashboardMapStep' /\ ~EffectPending
           /\ ~dash.isRiskModalOpen) => ~dash'.isRiskModalOpen]_vars

\* what holds instead: the effect closes the modal again whenever it runs on
\* that step
C22_EffectClosesModal ==
    []((OnDashboardMapStep /\ ~EffectPending) =>
          (~dash.isRiskModalOpen /\ dash.mapMarkers = <<1>>))

\* the mount effect's flag is set
InitialLoadFlag == ~Falsy(getItem(sessionStorage, "dashboardInitialLoad"))

CreatingSession ==
    {id \in DOMAIN calls : calls[id].op \in ChatOps /\ calls[id].pc = "session"}

\* the chat calls that posted a session creation and now wait for /run
RunningOnOwnSession ==
    {id \in DOMAIN calls : calls[id].op \in ChatOps /\ calls[id].pc = "run"
                           /\ calls[id].posts = 1}

\* C24 as claimed: chat calls started while no valid session is stored share
\* one session: at most one session-creation POST is in flight, and the calls
\* that waited for a creation all send the one id that is stored.
C24_ConcurrentCallsShareSession ==
    /\ Cardinality(CreatingSession) <= 1
    /\ \A i, j \in RunningOnOwnSession : calls[i].sid = calls[j].sid

====
